---- MODULE Spec2Model ----
(***************************************************************************)
(* State-machine model of src/src/App.jsx: the to-do list component, its   *)
(* localStorage-backed task collection, the add/edit and delete modals,    *)
(* the toast and its timers, the search debouncer, the visible-list        *)
(* filter, the theme, and the start from what localStorage holds.          *)
(*                                                                         *)
(* Strings of the program are sequences of one-character strings, so that  *)
(* trim(), toLowerCase() and includes() are computed, not assumed.         *)
(* Every event handler runs to completion and React re-renders (and runs   *)
(* the effects of that render) before the next event is handled, so one    *)
(* action is one handler together with the effects of its render.          *)
(***************************************************************************)
EXTENDS Integers, Sequences, FiniteSets, TLC

\* ------------------------------------------------------------------ bounds

\* Number of distinct values crypto.randomUUID() returns in one behaviour.
MaxIds == 3
\* Number of toast-dismissal timers that may be pending at once.
MaxToastTimers == 1

\* ------------------------------------------------------------ string model

Upper == <<"A","B","C","D","E","F","G","H","I","J","K","L","M",
           "N","O","P","Q","R","S","T","U","V","W","X","Y","Z">>
Lower == <<"a","b","c","d","e","f","g","h","i","j","k","l","m",
           "n","o","p","q","r","s","t","u","v","w","x","y","z">>

\* String.prototype.toLowerCase, character by character.
ToLowerChar(c) ==
    IF \E i \in DOMAIN Upper : Upper[i] = c
    THEN Lower[CHOOSE i \in DOMAIN Upper : Upper[i] = c]
    ELSE c

toLowerCase(s) == [i \in 1..Len(s) |-> ToLowerChar(s[i])]

IsWhiteSpace(c) == c \in {" ", "\t", "\n"}

\* String.prototype.trim: drops the leading and the trailing white space.
RECURSIVE TrimStart(_)
TrimStart(s) ==
    IF s # <<>> /\ IsWhiteSpace(Head(s)) THEN TrimStart(Tail(s)) ELSE s

RECURSIVE TrimEnd(_)
TrimEnd(s) ==
    IF s # <<>> /\ IsWhiteSpace(s[Len(s)])
    THEN TrimEnd(SubSeq(s, 1, Len(s) - 1))
    ELSE s

trim(s) == TrimEnd(TrimStart(s))

\* String.prototype.includes: t occurs in s as a contiguous run.
includes(s, t) ==
    \E k \in 0..(Len(s) - Len(t)) : SubSeq(s, k + 1, k + Len(t)) = t

\* Number of steps of the clock in one debounce delay.
TicksPerDelay == 4
\* Number of changes of the search input in one behaviour.
MaxChanges == 3

\* Number of steps of the clock in the 3000 ms of a toast.
TicksPerToast == 3
\* Number of toast-dismissal timers pending at once when the clock of the
\* toasts is followed.
MaxPendingToasts == 2

\* Number of calls of setValue a handler makes before the next render.
MaxCalls == 2

\* ------------------------------------------------------------------ values

\* useDebounce(searchTerm, 400)
Delay == 400

\* showToast: setTimeout(..., 3000)
ToastMs == 3000

\* The step of the clock, in ms.
TickMs == Delay \div TicksPerDelay

\* The step of the clock of the toasts, in ms.
ToastTickMs == ToastMs \div TicksPerToast

\* What crypto.randomUUID() may return.
UUIDs == 1..MaxIds

\* The options of the priority select of AddEditModal.
Priorities == {"normal", "high", "low"}

\* null / undefined.
Null == [null |-> TRUE]

\* Absent key: localStorage.getItem returns null.
Absent == [absent |-> TRUE]

LearnReactHooks ==
    <<"L","e","a","r","n"," ","R","e","a","c","t"," ","H","o","o","k","s">>
DoMorningExercise ==
    <<"D","o"," ","m","o","r","n","i","n","g"," ",
      "e","x","e","r","c","i","s","e">>

\* What the user leaves in the form of AddEditModal: the text typed into
\* its text input and the option picked in its priority select.
FormInputs ==
    { [text |-> <<" ">>, priority |-> "normal"],
      [text |-> <<" ", "a", " ">>, priority |-> "high"] }

\* What the user types into the search input.
Milk == <<"M","I","L","K">>
Terms == { <<>>, Milk, <<"o">>, <<"R","e">> }

\* The options of the status select.
Filters == {"all", "active", "completed"}

BuyMilk == <<"B","u","y"," ","m","i","l","k">>

\* ------------------------------------------------------------------- state

VARIABLES
    todos,                \* useLocalStorage('todo_list_demo'): storedValue
    storage,              \* window.localStorage under 'todo_list_demo'
    issued,               \* values crypto.randomUUID() has returned
    modal,                \* App: add/edit modal {isOpen, mode, todo}
    deleteModal,          \* App: delete modal {isOpen, id}
    toast,                \* App: toast {isShow, message}
    toastTimers,          \* pending setTimeout callbacks of showToast, oldest
                          \*   first: the ms left until each is due
    searchTerm,           \* App: search input
    filter,               \* App: status filter
    debouncedSearchTerm,  \* useDebounce: debouncedValue
    handler,              \* useDebounce: the timeout of the latest effect run
    timeouts,             \* the setTimeout callbacks of useDebounce not yet run
    elapsed,              \* history: ms since searchTerm last changed, up to Delay
    held,                 \* history: the values searchTerm has had
    burst,                \* history: the inputs that followed each other
                          \*   with gaps shorter than Delay
    outputs,              \* history: the values set by the debounce timeout
                          \*   since the burst began
    changes,              \* history: how often searchTerm has changed
    theme,                \* useLocalStorage('theme_dark'): storedValue
    themeStorage,         \* window.localStorage under 'theme_dark'
    darkClass,            \* documentElement.classList has 'dark-theme'
    phase,                \* the life of App: "mounted", "crashed" (a render
                          \*   threw), "unmounted"
    quotaExceeded,        \* window.localStorage is full: setItem throws
    setItem,              \* history: localStorage.setItem in the last step
    last                  \* history: the operation that ran last

vars == <<todos, storage, issued, modal, deleteModal, toast,
          toastTimers, searchTerm, filter, debouncedSearchTerm, handler,
          timeouts, elapsed, held, burst, outputs, changes, theme,
          themeStorage, darkClass, phase, quotaExceeded, setItem, last>>

taskVars == <<todos, storage, issued, modal, deleteModal, toast, toastTimers>>

searchVars == <<searchTerm, filter, debouncedSearchTerm, handler, timeouts,
                elapsed, held, burst, outputs, changes>>

themeVars == <<theme, themeStorage, darkClass>>

\* What a handler of the task collection leaves alone, and what the search
\* box, the status select and the debouncer leave alone.
notTaskVars == <<searchVars, themeVars, phase, quotaExceeded>>
notSearchVars == <<taskVars, themeVars, phase, quotaExceeded>>


\* History: the operation of this step, the id it was given (0: none) and
\* its other argument (Null: none).
Did(op, id, arg) == last' = [op |-> op, id |-> id, arg |-> arg]

\* ------------------------------------------------------- persisted store

\* Whether localStorage.setItem returns (TRUE) or throws (FALSE): it throws
\* QuotaExceededError while the store is full.
WriteOutcomes == {~quotaExceeded}

\* JSON.stringify: the JSON text of a value; JSON.parse gives the value back.
JSONstringify(value) == [json |-> value]

\* Mutant: what is written is the value before the update.
setValueStale(valueToStore, ok) ==
    /\ todos' = valueToStore
    /\ storage' = IF ok THEN JSONstringify(todos) ELSE storage
    /\ setItem' = IF ok THEN "ok" ELSE "failed"

\* Mutant: the state is set after the write, so not at all when it throws.
setValueWriteFirst(valueToStore, ok) ==
    /\ todos' = IF ok THEN valueToStore ELSE todos
    /\ storage' = IF ok THEN JSONstringify(valueToStore) ELSE storage
    /\ setItem' = IF ok THEN "ok" ELSE "failed"

\* useLocalStorage.setValue with the updater already applied to storedValue:
\* the state is set first, then the write is tried; a throwing setItem
\* (quota exceeded) is caught and logged.
setValue(valueToStore, ok) ==
    /\ todos' = valueToStore
    /\ storage' = IF ok THEN JSONstringify(valueToStore) ELSE storage
    /\ setItem' = IF ok THEN "ok" ELSE "failed"

\* A path of a handler that does not call setValue.
noSetValue == UNCHANGED <<todos, storage>> /\ setItem' = "none"

\* What localStorage.getItem can return besides null (Absent) and the text
\* JSON.stringify wrote ([json |-> value]): a text some other writer left.
\* JSON.parse gives null for 'null' and 5 for '5', and throws SyntaxError for
\* '{oops' and for ''.
Texts == {"", "{oops", "null", "5"}

\* !item: getItem returned null or the empty string.
Falsy(item) == item = Absent \/ item = [text |-> ""]

\* Whether JSON.parse(item) returns, and what.
Parses(item) ==
    \/ "json" \in DOMAIN item
    \/ "text" \in DOMAIN item /\ item.text \in {"null", "5"}
JSONparse(item) ==
    IF "json" \in DOMAIN item THEN item.json
    ELSE IF item.text = "null" THEN Null
    ELSE 5

\* Mutant: the catch gives an empty list instead of initialValue.
useLocalStorageCatchEmpty(item, initialValue) ==
    IF Falsy(item) THEN initialValue
    ELSE IF Parses(item) THEN JSONparse(item)
    ELSE <<>>

\* The initializer of useState in useLocalStorage: the first storedValue,
\* for the item getItem returned.
useLocalStorage(item, initialValue) ==
    IF Falsy(item) THEN initialValue
    ELSE IF Parses(item) THEN JSONparse(item)
    ELSE initialValue

\* Whether the first storedValue has Array.prototype.filter: null and a
\* number have not, and todos.filter in the first render throws TypeError.
HasFilter(item) ==
    \/ Falsy(item)
    \/ ~Parses(item)
    \/ "json" \in DOMAIN item

\* ------------------------------------------------------------------- theme

\* t => t === '1' ? '0' : '1'
FlipTheme(t) == IF t = "1" THEN "0" ELSE "1"

\* Mutant: the effect adds the class and never removes it.
useThemeEffectAddOnly(t) == darkClass' = (darkClass \/ t = "1")

\* The effect of useTheme on [theme].
useThemeEffect(t) == darkClass' = (t = "1")

\* toggleTheme: setValue of useLocalStorage('theme_dark', '0') with the
\* updater applied, then the render and the effect.
toggleTheme(ok) ==
    /\ theme' = FlipTheme(theme)
    /\ themeStorage' = IF ok THEN JSONstringify(theme') ELSE themeStorage
    /\ setItem' = IF ok THEN "ok" ELSE "failed"
    /\ useThemeEffect(theme')

\* ------------------------------------------------------- task repository

Ids(ts) == { ts[i].id : i \in DOMAIN ts }

\* Array.prototype.find: the first element with that id, or undefined.
find(ts, id) ==
    IF \E i \in DOMAIN ts : ts[i].id = id
    THEN ts[CHOOSE i \in DOMAIN ts :
                /\ ts[i].id = id
                /\ \A j \in DOMAIN ts : ts[j].id = id => i <= j]
    ELSE Null

\* { ...t, ...newData }
Merge(t, newData) ==
    [k \in DOMAIN t \cup DOMAIN newData |->
        IF k \in DOMAIN newData THEN newData[k] ELSE t[k]]

\* Mutant: the new task is put last.
AppendTodo(newTodo, currentTodos) == Append(currentTodos, newTodo)

\* currentTodos => [newTodo, ...currentTodos]
PrependTodo(newTodo, currentTodos) == <<newTodo>> \o currentTodos

\* Mutant: the merge is applied to every task, whatever its id.
MapUpdateAll(currentTodos, id, newData) ==
    [i \in DOMAIN currentTodos |-> Merge(currentTodos[i], newData)]

\* currentTodos => currentTodos.map(t => t.id === id ? {...t, ...newData} : t)
MapUpdate(currentTodos, id, newData) ==
    [i \in DOMAIN currentTodos |->
        IF currentTodos[i].id = id
        THEN Merge(currentTodos[i], newData)
        ELSE currentTodos[i]]

\* Mutant: the test of the filter is inverted.
FilterOutInverted(currentTodos, id) ==
    SelectSeq(currentTodos, LAMBDA t : t.id = id)

\* currentTodos => currentTodos.filter(t => t.id !== id)
FilterOut(currentTodos, id) ==
    SelectSeq(currentTodos, LAMBDA t : t.id # id)

\* showToast: shows the message and schedules a dismissal; the timer of an
\* earlier toast is left pending.
showToast(message) ==
    /\ toast' = [isShow |-> TRUE, message |-> message]
    /\ toastTimers' = Append(toastTimers, ToastMs)

\* Mutant: the id is the position of the new task instead of a UUID.
NewTodoCountedId(id, t, p) ==
    [id |-> Len(todos) + 1, text |-> trim(t), done |-> FALSE, priority |-> p]

NewTodo(id, t, p) == [id |-> id, text |-> trim(t), done |-> FALSE, priority |-> p]

handleAddTodo(t, p, id, ok) ==
    /\ issued' = issued \cup {id}
    /\ setValue(PrependTodo(NewTodo(id, t, p), todos), ok)
    /\ showToast("Task added!")

handleUpdateTodo(id, newData, ok) ==
    /\ setValue(MapUpdate(todos, id, newData), ok)
    /\ showToast("Task updated!")
    /\ UNCHANGED issued

handleCloseDeleteModal == deleteModal' = [isOpen |-> FALSE, id |-> Null]

\* Mutant: the delete modal is left open after the delete.
handleDeleteTodoStaysOpen(id, ok) ==
    /\ setValue(FilterOut(todos, id), ok)
    /\ UNCHANGED deleteModal
    /\ showToast("Task deleted.")
    /\ UNCHANGED issued

handleDeleteTodo(id, ok) ==
    /\ setValue(FilterOut(todos, id), ok)
    /\ handleCloseDeleteModal
    /\ showToast("Task deleted.")
    /\ UNCHANGED issued

\* Mutant: the check box only ever marks the task done.
ToggleDataDone(todo) == [done |-> TRUE]

\* { done: !todo.done }
ToggleData(todo) == [done |-> ~todo.done]

handleToggleDone(id, ok) ==
    LET todo == find(todos, id) IN
    IF todo # Null
    THEN handleUpdateTodo(id, ToggleData(todo), ok)
    ELSE noSetValue /\ UNCHANGED <<issued, toast, toastTimers>>

\* --------------------------------------------------------- filter engine

\* Mutant: the search compares the text as typed, not lower-cased.
KeepsCaseSensitive(t, f, term) ==
    IF f = "active" /\ t.done THEN FALSE
    ELSE IF f = "completed" /\ ~t.done THEN FALSE
    ELSE IF term # <<>> /\ ~includes(t.text, term) THEN FALSE
    ELSE TRUE

\* The callback of todos.filter in filteredTodos.
Keeps(t, f, term) ==
    IF f = "active" /\ t.done THEN FALSE
    ELSE IF f = "completed" /\ ~t.done THEN FALSE
    ELSE IF term # <<>> /\ ~includes(toLowerCase(t.text), toLowerCase(term))
         THEN FALSE
    ELSE TRUE

Visible(ts, f, term) == SelectSeq(ts, LAMBDA t : Keeps(t, f, term))

\* App: filteredTodos, the list of TodoItem rendered.
filteredTodos == Visible(todos, filter, debouncedSearchTerm)

\* -------------------------------------------------------------- debouncer

\* setTimeout(() => setDebouncedValue(value), delay): the scheduled callback,
\* with the value its closure holds and the time left until it is due.
setTimeout(value, delay) == [value |-> value, left |-> delay]

\* clearTimeout(handler)
clearTimeout(pending, h) == pending \ {h}

\* Mutant: the effect has no cleanup, the earlier timeout stays pending.
useDebounceEffectNoCleanup(value) ==
    /\ handler' = setTimeout(value, Delay)
    /\ timeouts' = timeouts \cup {handler'}

\* Mutant: the effect runs on mount only (an empty dependency list).
useDebounceEffectOnMount(value) == UNCHANGED <<handler, timeouts>>

\* The effect of useDebounce on [value, delay]: the cleanup of the previous
\* run, then the new timeout.
useDebounceEffect(value) ==
    /\ handler' = setTimeout(value, Delay)
    /\ timeouts' = clearTimeout(timeouts, handler) \cup {handler'}

\* onChange of the search input: setSearchTerm(e.target.value), the render
\* and the effect of useDebounce.  An unchanged value is no change of state.
ChangeSearch ==
    /\ changes < MaxChanges
    /\ \E v \in Terms \ {searchTerm} :
          /\ searchTerm' = v
          /\ useDebounceEffect(v)
          /\ held' = held \cup {v}
          /\ burst' = IF elapsed < Delay THEN Append(burst, v) ELSE <<v>>
    /\ outputs' = IF elapsed < Delay THEN outputs ELSE <<>>
    /\ elapsed' = 0
    /\ changes' = changes + 1
    /\ Did("setSearchTerm", 0, Null)
    /\ setItem' = "none"
    /\ UNCHANGED <<filter, debouncedSearchTerm>>
    /\ UNCHANGED notSearchVars

\* onChange of the status select: setFilter(e.target.value).
ChangeFilter ==
    /\ \E f \in Filters \ {filter} : filter' = f
    /\ Did("setFilter", 0, Null)
    /\ setItem' = "none"
    /\ UNCHANGED <<searchTerm, debouncedSearchTerm, handler, timeouts, elapsed,
                   held, burst, outputs, changes>>
    /\ UNCHANGED notSearchVars

Min(a, b) == IF a <= b THEN a ELSE b

\* Time passes, by one step of the clock or up to the next timeout that is
\* due: a due callback runs before more time passes.
Tick ==
    /\ \A t \in timeouts : t.left > 0
    /\ \/ timeouts # {}
       \/ elapsed < Delay
    /\ LET d == IF timeouts = {} THEN TickMs
                ELSE Min(TickMs, CHOOSE m \in {t.left : t \in timeouts} :
                                   \A t \in timeouts : m <= t.left)
       IN /\ timeouts' = { [t EXCEPT !.left = t.left - d] : t \in timeouts }
          /\ handler' = IF handler \in timeouts
                        THEN [handler EXCEPT !.left = handler.left - d]
                        ELSE handler
          /\ elapsed' = Min(Delay, elapsed + d)
    /\ Did("tick", 0, Null)
    /\ setItem' = "none"
    /\ UNCHANGED <<searchTerm, filter, debouncedSearchTerm, held, burst,
                   outputs, changes>>
    /\ UNCHANGED notSearchVars

\* The callback of setTimeout in useDebounce: setDebouncedValue(value).
DebounceTimeout ==
    /\ \E t \in timeouts :
          /\ t.left = 0
          /\ timeouts' = timeouts \ {t}
          /\ debouncedSearchTerm' = t.value
          /\ outputs' = Append(outputs, t.value)
    /\ Did("debounceTimeout", 0, Null)
    /\ setItem' = "none"
    /\ UNCHANGED <<searchTerm, filter, handler, elapsed, held, burst, changes>>
    /\ UNCHANGED notSearchVars

\* ------------------------------------------------------------ UI events

ClosedModal == [isOpen |-> FALSE, mode |-> "new", todo |-> Null]

\* The bound on pending toast timers: a handler that shows a toast waits
\* for room.
CanToast == Len(toastTimers) < MaxToastTimers

\* crypto.randomUUID(): a value never returned before.  The ids are only
\* ever compared for equality, so the least unused one stands for any.
CanIssue == UUIDs \ issued # {}
randomUUID == CHOOSE id \in UUIDs \ issued : \A o \in UUIDs \ issued : id <= o

\* AddEditModal's effect on [modal] gives the form its first content:
\* the task's text and priority in mode 'edit', '' and 'normal' otherwise.
FormText(m) ==
    IF m.isOpen /\ m.mode = "edit" /\ m.todo # Null THEN m.todo.text ELSE <<>>
FormPriority(m) ==
    IF m.isOpen /\ m.mode = "edit" /\ m.todo # Null
    THEN m.todo.priority
    ELSE "normal"

\* What the form of the open modal can hold when Save is clicked: its
\* first content, or what the user typed and picked since (setText,
\* setPriority).
FormsAtSave ==
    { [text |-> FormText(modal), priority |-> FormPriority(modal)] }
    \cup FormInputs

handleOpenModal(mode, todo) ==
    modal' = [isOpen |-> TRUE, mode |-> mode, todo |-> todo]

handleCloseModal == modal' = ClosedModal

\* The Add button and the floating add button.
ClickAdd ==
    /\ handleOpenModal("new", Null)
    /\ noSetValue
    /\ Did("openNew", 0, Null)
    /\ UNCHANGED <<issued, deleteModal, toast, toastTimers>>
    /\ UNCHANGED notTaskVars

\* The edit button of a rendered TodoItem.
ClickEdit ==
    /\ \E i \in DOMAIN filteredTodos :
          handleOpenModal("edit", filteredTodos[i])
    /\ noSetValue
    /\ Did("openEdit", 0, Null)
    /\ UNCHANGED <<issued, deleteModal, toast, toastTimers>>
    /\ UNCHANGED notTaskVars

\* The Cancel button of AddEditModal, rendered while the modal is open.
ClickCancel ==
    /\ modal.isOpen
    /\ handleCloseModal
    /\ noSetValue
    /\ Did("closeModal", 0, Null)
    /\ UNCHANGED <<issued, deleteModal, toast, toastTimers>>
    /\ UNCHANGED notTaskVars

\* onAdd of AddEditModal: handleAddTodo.
onAdd(t, p) ==
    /\ CanToast
    /\ CanIssue
    /\ \E ok \in WriteOutcomes : handleAddTodo(t, p, randomUUID, ok)
    /\ Did("add", randomUUID, [text |-> t, priority |-> p])

\* onUpdate of AddEditModal: handleUpdateTodo.
onUpdate(id, newData) ==
    /\ CanToast
    /\ \E ok \in WriteOutcomes : handleUpdateTodo(id, newData, ok)
    /\ Did(IF id \in Ids(todos) THEN "update" ELSE "updateUnknown", id, newData)

\* onToggleDone of TodoItem: handleToggleDone.
onToggleDone(id) ==
    /\ CanToast
    /\ \E ok \in WriteOutcomes : handleToggleDone(id, ok)
    /\ Did(IF id \in Ids(todos) THEN "toggle" ELSE "toggleUnknown", id, Null)

\* onConfirm of DeleteModal: handleDeleteTodo.
onConfirm(id) ==
    /\ CanToast
    /\ \E ok \in WriteOutcomes : handleDeleteTodo(id, ok)
    /\ Did(IF id \in Ids(todos) THEN "remove" ELSE "removeUnknown", id, Null)

\* Mutant: handleSubmit without its test of the trimmed text.
handleSubmitUnchecked(t, p) ==
    /\ IF modal.mode = "edit"
       THEN onUpdate(modal.todo.id, [text |-> t, priority |-> p])
       ELSE onAdd(t, p)
    /\ handleCloseModal

\* AddEditModal.handleSubmit with text t and priority p in the form.
handleSubmit(t, p) ==
    IF trim(t) = <<>>
    THEN /\ noSetValue
         /\ Did("submitBlank", 0, [text |-> t, priority |-> p])
         /\ UNCHANGED <<issued, modal, toast, toastTimers>>
    ELSE /\ IF modal.mode = "edit"
            THEN onUpdate(modal.todo.id, [text |-> t, priority |-> p])
            ELSE onAdd(t, p)
         /\ handleCloseModal

\* The Save button of AddEditModal, rendered while the modal is open.
ClickSave ==
    /\ modal.isOpen
    /\ \E f \in FormsAtSave : handleSubmit(f.text, f.priority)
    /\ UNCHANGED deleteModal
    /\ UNCHANGED notTaskVars

\* The check box of a rendered TodoItem.
ClickToggle ==
    /\ \E i \in DOMAIN filteredTodos : onToggleDone(filteredTodos[i].id)
    /\ UNCHANGED <<modal, deleteModal>>
    /\ UNCHANGED notTaskVars

handleOpenDeleteModal(id) == deleteModal' = [isOpen |-> TRUE, id |-> id]

\* The delete button of a rendered TodoItem.
ClickDelete ==
    /\ \E i \in DOMAIN filteredTodos :
          /\ handleOpenDeleteModal(filteredTodos[i].id)
          /\ Did("requestDelete", filteredTodos[i].id, Null)
    /\ noSetValue
    /\ UNCHANGED <<issued, modal, toast, toastTimers>>
    /\ UNCHANGED notTaskVars

\* The Cancel button of DeleteModal, rendered while that modal is open.
CancelDelete ==
    /\ deleteModal.isOpen
    /\ handleCloseDeleteModal
    /\ noSetValue
    /\ Did("cancelDelete", 0, Null)
    /\ UNCHANGED <<issued, modal, toast, toastTimers>>
    /\ UNCHANGED notTaskVars

\* The Delete button of DeleteModal, rendered while that modal is open.
ConfirmDelete ==
    /\ deleteModal.isOpen
    /\ onConfirm(deleteModal.id)
    /\ UNCHANGED modal
    /\ UNCHANGED notTaskVars

\* The time until the oldest timer of showToast is due passes, and its
\* callback runs: setToast({ isShow: false, message: '' }).
ToastTimeout ==
    /\ toastTimers # <<>>
    /\ toast' = [isShow |-> FALSE, message |-> ""]
    /\ toastTimers' = [i \in 1..(Len(toastTimers) - 1) |->
                          toastTimers[i + 1] - toastTimers[1]]
    /\ noSetValue
    /\ Did("toastTimeout", 0, Null)
    /\ UNCHANGED <<issued, modal, deleteModal>>
    /\ UNCHANGED notTaskVars

\* Time passes for the timers of showToast, by one step of their clock or
\* up to the next that is due: a due callback runs before more time passes.
ToastTick ==
    /\ toastTimers # <<>>
    /\ toastTimers[1] > 0
    /\ LET d == Min(ToastTickMs, toastTimers[1])
       IN toastTimers' = [i \in DOMAIN toastTimers |-> toastTimers[i] - d]
    /\ noSetValue
    /\ Did("toastTick", 0, Null)
    /\ UNCHANGED <<issued, modal, deleteModal, toast>>
    /\ UNCHANGED notTaskVars

\* The check box of a rendered TodoItem, clicked whether or not a toast
\* is still shown.
ClickToggleAnyTime ==
    /\ Len(toastTimers) < MaxPendingToasts
    /\ \E i \in DOMAIN filteredTodos, ok \in WriteOutcomes :
          /\ handleToggleDone(filteredTodos[i].id, ok)
          /\ Did("toggle", filteredTodos[i].id, Null)
    /\ UNCHANGED <<modal, deleteModal>>
    /\ UNCHANGED notTaskVars

\* App is unmounted: the cleanup of the effect of useDebounce clears its
\* timeout (the cleanup of the font effect removes the link); nothing
\* keeps the timers of showToast, they stay pending.
Unmount ==
    /\ phase = "mounted"
    /\ phase' = "unmounted"
    /\ timeouts' = clearTimeout(timeouts, handler)
    /\ Did("unmount", 0, Null)
    /\ setItem' = "none"
    /\ UNCHANGED <<searchTerm, filter, debouncedSearchTerm, handler, elapsed,
                   held, burst, outputs, changes>>
    /\ UNCHANGED <<taskVars, themeVars, quotaExceeded>>

\* The theme button of the header.
ClickTheme ==
    /\ \E ok \in WriteOutcomes : toggleTheme(ok)
    /\ Did("toggleTheme", 0, Null)
    /\ UNCHANGED <<taskVars, searchVars, phase, quotaExceeded>>

\* Other pages of the origin fill window.localStorage, or free it.
QuotaChange ==
    /\ quotaExceeded' = ~quotaExceeded
    /\ Did("quota", 0, Null)
    /\ setItem' = "none"
    /\ UNCHANGED <<taskVars, searchVars, themeVars, phase>>

\* ----------------------------------------- the handlers called directly

\* Updater functions a caller passes to setValue: those of handleDeleteTodo
\* and of handleUpdateTodo, for an id and a done flag.
Updaters ==
    { [fn |-> "filter", id |-> id] : id \in {1, 2} }
    \cup { [fn |-> "map", id |-> id, newData |-> [done |-> d]] :
               id \in {1, 2}, d \in BOOLEAN }

\* value(storedValue) for an updater.
Apply(value, storedValue) ==
    IF value.fn = "filter"
    THEN FilterOut(storedValue, value.id)
    ELSE MapUpdate(storedValue, value.id, value.newData)

\* A handler calls setValue of one render with the updaters fs, one after
\* the other.  Every call computes value(storedValue) from the storedValue
\* of that render, sets it as the state and writes it: what the next
\* render sees, and what is stored, is what the last call computed.
CallSetValue ==
    /\ \E n \in 1..MaxCalls :
          \E fs \in [1..n -> Updaters], ok \in WriteOutcomes :
              /\ setValue(Apply(fs[n], todos), ok)
              /\ Did("setValue", 0, fs)
    /\ UNCHANGED <<issued, modal, deleteModal, toast, toastTimers>>
    /\ UNCHANGED notTaskVars

\* What a caller passes to handleUpdateTodo as newData.
NewData == { [done |-> d] : d \in BOOLEAN } \cup FormInputs

CallAdd ==
    /\ \E f \in FormInputs : onAdd(f.text, f.priority)
    /\ UNCHANGED <<modal, deleteModal>>
    /\ UNCHANGED notTaskVars

CallUpdate ==
    /\ \E id \in UUIDs, newData \in NewData : onUpdate(id, newData)
    /\ UNCHANGED <<modal, deleteModal>>
    /\ UNCHANGED notTaskVars

CallToggleDone ==
    /\ \E id \in UUIDs : onToggleDone(id)
    /\ UNCHANGED <<modal, deleteModal>>
    /\ UNCHANGED notTaskVars

CallDelete ==
    /\ \E id \in UUIDs : onConfirm(id)
    /\ UNCHANGED modal
    /\ UNCHANGED notTaskVars

\* ------------------------------------------------------------------ Init

\* The default value of useLocalStorage('todo_list_demo', ...).
DefaultTodos(a, b) ==
    << [id |-> a, text |-> LearnReactHooks, done |-> FALSE,
        priority |-> "normal"],
       [id |-> b, text |-> DoMorningExercise, done |-> TRUE,
        priority |-> "low"] >>

\* The search box, the filter and the debouncer right after mount: the
\* effect of useDebounce has scheduled its first timeout.
InitSearch ==
    /\ searchTerm = <<>>
    /\ filter = "all"
    /\ debouncedSearchTerm = <<>>
    /\ handler = setTimeout(<<>>, Delay)
    /\ timeouts = {handler}
    /\ elapsed = 0
    /\ held = { <<>> }
    /\ burst = << <<>> >>
    /\ outputs = <<>>
    /\ changes = 0

\* The theme, the life of App and the store right after mount with nothing
\* stored under 'theme_dark': the default '0', no dark-theme class.
InitTheme ==
    /\ theme = "0"
    /\ themeStorage = Absent
    /\ darkClass = FALSE
    /\ phase = "mounted"
    /\ quotaExceeded = FALSE

\* After mount with nothing stored under the key.
Init ==
    /\ todos = DefaultTodos(1, 2)
    /\ issued = {1, 2}
    /\ storage = Absent
    /\ modal = ClosedModal
    /\ deleteModal = [isOpen |-> FALSE, id |-> Null]
    /\ toast = [isShow |-> FALSE, message |-> ""]
    /\ toastTimers = <<>>
    /\ setItem = "none"
    /\ last = [op |-> "mount", id |-> 0, arg |-> Null]
    /\ InitSearch
    /\ InitTheme

\* The to-do list driven through its rendered controls.
Next ==
    \/ ClickAdd
    \/ ClickEdit
    \/ ClickCancel
    \/ ClickSave
    \/ ClickToggle
    \/ ClickDelete
    \/ CancelDelete
    \/ ConfirmDelete
    \/ ToastTimeout

Spec == Init /\ [][Next]_vars

\* The handlers of the task collection called with any id, as the children
\* of App call them through their props.
NextOps ==
    \/ CallAdd
    \/ CallUpdate
    \/ CallToggleDone
    \/ CallDelete
    \/ ToastTimeout

SpecOps == Init /\ [][NextOps]_vars

\* Collections the list can hold when the user turns to the search box
\* and the status select.
SampleTodos ==
    { DefaultTodos(1, 2),
      <<>>,
      << [id |-> 3, text |-> BuyMilk, done |-> FALSE, priority |-> "high"],
         [id |-> 1, text |-> LearnReactHooks, done |-> TRUE,
          priority |-> "normal"],
         [id |-> 2, text |-> Milk, done |-> TRUE, priority |-> "low"] >>,
      << [id |-> 2, text |-> DoMorningExercise, done |-> FALSE,
          priority |-> "low"],
         [id |-> 3, text |-> <<"o","R","E">>, done |-> FALSE,
          priority |-> "normal"] >> }

InitSampled ==
    /\ todos \in SampleTodos
    /\ issued = UUIDs
    /\ storage = IF todos = DefaultTodos(1, 2) THEN Absent
                 ELSE JSONstringify(todos)
    /\ modal = ClosedModal
    /\ deleteModal = [isOpen |-> FALSE, id |-> Null]
    /\ toast = [isShow |-> FALSE, message |-> ""]
    /\ toastTimers = <<>>
    /\ setItem = "none"
    /\ last = [op |-> "mount", id |-> 0, arg |-> Null]
    /\ InitSearch
    /\ InitTheme

\* The search box, the status select and the clock.
NextSearch ==
    \/ ChangeSearch
    \/ ChangeFilter
    \/ Tick
    \/ DebounceTimeout

SpecSearch == InitSampled /\ [][NextSearch]_vars

\* Time passes and a due timeout runs.
SpecSearchFair ==
    SpecSearch /\ WF_vars(Tick) /\ WF_vars(DebounceTimeout)

\* What can be stored under 'todo_list_demo' and under 'theme_dark' when
\* the page is loaded.
StoredTodos ==
    {Absent} \cup { [text |-> t] : t \in Texts }
             \cup { JSONstringify(ts) : ts \in SampleTodos }
StoredThemes ==
    {Absent, [text |-> "{oops"], JSONstringify("0"), JSONstringify("1")}

\* After the first render of App, for what is stored at that time: the
\* initializers of both useLocalStorage have run; the render has thrown
\* if todos has no filter, and else the effects have run.
InitStored ==
    /\ storage \in StoredTodos
    /\ themeStorage \in StoredThemes
    /\ todos = useLocalStorage(storage, DefaultTodos(1, 2))
    /\ theme = useLocalStorage(themeStorage, "0")
    /\ phase = IF HasFilter(storage) THEN "mounted" ELSE "crashed"
    /\ darkClass = (phase = "mounted" /\ theme = "1")
    /\ issued = IF "json" \in DOMAIN storage THEN UUIDs ELSE {1, 2}
    /\ quotaExceeded = FALSE
    /\ modal = ClosedModal
    /\ deleteModal = [isOpen |-> FALSE, id |-> Null]
    /\ toast = [isShow |-> FALSE, message |-> ""]
    /\ toastTimers = <<>>
    /\ setItem = "none"
    /\ last = [op |-> "mount", id |-> 0, arg |-> Null]
    /\ InitSearch

\* The page loaded with any stored content, then used while it is mounted.
NextStored ==
    \/ phase = "mounted" /\ CallAdd
    \/ phase = "mounted" /\ CallUpdate
    \/ phase = "mounted" /\ CallToggleDone
    \/ phase = "mounted" /\ CallDelete
    \/ phase = "mounted" /\ ClickTheme
    \/ phase = "mounted" /\ ToastTimeout

SpecStored == InitStored /\ [][NextStored]_vars

\* The task collection changed while the store fills and empties.
NextQuota ==
    \/ CallAdd
    \/ CallToggleDone
    \/ CallDelete
    \/ ToastTimeout
    \/ QuotaChange

SpecQuota == Init /\ [][NextQuota]_vars

\* Check boxes clicked while the clock of the toasts runs.
NextToast ==
    \/ ClickToggleAnyTime
    \/ ToastTick
    \/ ToastTimeout

SpecToast == Init /\ [][NextToast]_vars

\* The search box and the check boxes used until App is unmounted, and the
\* timers that are left.
NextUnmount ==
    \/ phase = "mounted" /\ ChangeSearch
    \/ phase = "mounted" /\ ClickToggleAnyTime
    \/ Tick
    \/ DebounceTimeout
    \/ ToastTimeout
    \/ Unmount

SpecUnmount == Init /\ [][NextUnmount]_vars

\* useLocalStorage('todo_list_demo') used by any handler.
NextStore ==
    \/ CallSetValue

SpecStore == Init /\ [][NextStore]_vars

\* ------------------------------------------------------------------ claims

\* The record with that id, for a collection without duplicate ids.
Task(ts, id) == ts[CHOOSE i \in DOMAIN ts : ts[i].id = id]

\* C1: after any sequence of add, edit, toggle and remove from the initial
\* collection, no two tasks of the collection have the same id.
C1_UniqueIds ==
    \A i \in DOMAIN todos, j \in DOMAIN todos :
        todos[i].id = todos[j].id => i = j

\* A task was added after another was removed and a third was edited.
C1_Witness ==
    /\ last.op = "add"
    /\ Len(todos) = 2
    /\ \E i \in DOMAIN todos : todos[i].text = <<" ", "a", " ">>

\* C2: an add with text that is not blank puts a new record first, with an
\* id no task had, the trimmed text, done = false and the given priority, and
\* the rest of the collection is the previous collection, in its order.
C2_AddPrepends ==
    [][ (last'.op = "add" /\ trim(last'.arg.text) # <<>>) =>
            /\ todos' # <<>>
            /\ Tail(todos') = todos
            /\ Head(todos').id \notin Ids(todos)
            /\ Head(todos').text = trim(last'.arg.text)
            /\ Head(todos').done = FALSE
            /\ Head(todos').priority = last'.arg.priority ]_vars

\* add(" a ", "high") has made "a" the first task of three.
C2_Witness ==
    /\ last.op = "add"
    /\ last.arg = [text |-> <<" ", "a", " ">>, priority |-> "high"]
    /\ Len(todos) = 3
    /\ todos[1].text = <<"a">>
    /\ todos[1].priority = "high"

\* C3: an add with blank text (empty, or white space only) changes nothing:
\* the collection stays, nothing is written to the store, no toast is shown.
C3_BlankAddIsNoOp ==
    [][ (/\ modal.isOpen
         /\ modal.mode = "new"
         /\ last'.op \in {"add", "submitBlank"}
         /\ trim(last'.arg.text) = <<>>) =>
            /\ todos' = todos
            /\ storage' = storage
            /\ setItem' = "none"
            /\ toast' = toast
            /\ toastTimers' = toastTimers ]_vars

\* Save was clicked in the New Task modal with " " in the text input.
C3_Witness ==
    /\ last.op = "submitBlank"
    /\ last.arg.text = <<" ">>
    /\ modal.isOpen
    /\ modal.mode = "new"
    /\ setItem = "none"

\* What handleToggleDone stores for a collection and an id in it.
Toggled(ts, id) == MapUpdate(ts, id, ToggleData(find(ts, id)))

\* C4: a toggle inverts done of the task with that id and changes nothing
\* else; a second toggle of the same id gives the collection back.
C4_ToggleInvolution ==
    /\ [](\A id \in Ids(todos) :
            /\ Toggled(Toggled(todos, id), id) = todos
            /\ \A i \in DOMAIN todos :
                  Toggled(todos, id)[i] =
                      IF todos[i].id = id
                      THEN [todos[i] EXCEPT !.done = ~todos[i].done]
                      ELSE todos[i])
    /\ [][ last'.op = "toggle" => todos' = Toggled(todos, last'.id) ]_vars

\* Task 1, not done at first, is not done after a toggle: its second.
C4_Witness ==
    /\ last.op = "toggle"
    /\ last.id = 1
    /\ 1 \in Ids(todos)
    /\ ~Task(todos, 1).done

\* The collection without its k-th record.
Without(ts, k) ==
    [i \in 1..(Len(ts) - 1) |-> IF i < k THEN ts[i] ELSE ts[i + 1]]

\* C5: remove(id) takes the record with that id out and keeps the others
\* in their order; for an id not in the collection it leaves the collection
\* as it was.
C5_RemoveKeepsOthers ==
    [][ last'.op \in {"remove", "removeUnknown"} =>
            IF last'.id \in Ids(todos)
            THEN \E k \in DOMAIN todos :
                    /\ todos[k].id = last'.id
                    /\ todos' = Without(todos, k)
            ELSE todos' = todos ]_vars

\* An id not in the collection was removed, after task 1 was taken out
\* between tasks 3 and 2.
C5_Witness ==
    /\ last.op = "removeUnknown"
    /\ Len(todos) = 2
    /\ todos[1].id = 3
    /\ todos[2].id = 2

\* C6: update, remove and toggle with an id that is not in the collection
\* change nothing: not the collection, no write to the store, no toast.
C6_UnknownIdIsNoOp ==
    [][ last'.op \in {"updateUnknown", "removeUnknown", "toggleUnknown"} =>
            /\ todos' = todos
            /\ storage' = storage
            /\ setItem' = "none"
            /\ toast' = toast
            /\ toastTimers' = toastTimers ]_vars

\* The tasks a status filter and a search term let through.
Passes(t, f, term) ==
    /\ f = "active" => ~t.done
    /\ f = "completed" => t.done
    /\ includes(toLowerCase(t.text), toLowerCase(term))

\* C7: the visible list is the subsequence of the collection, in its order,
\* of the tasks that pass the status filter and whose lower-cased text
\* contains the lower-cased debounced search term (the empty term is
\* contained in every text).
C7_VisibleIsFilteredSubsequence ==
    \E at \in [DOMAIN filteredTodos -> DOMAIN todos] :
        /\ \A i \in DOMAIN filteredTodos : filteredTodos[i] = todos[at[i]]
        /\ \A i \in DOMAIN filteredTodos, j \in DOMAIN filteredTodos :
              i < j => at[i] < at[j]
        /\ { at[i] : i \in DOMAIN filteredTodos } =
              { k \in DOMAIN todos :
                    Passes(todos[k], filter, debouncedSearchTerm) }

\* "MILK" has settled in the search box with the filter on active: of
\* "Buy milk" (not done), "Learn React Hooks" and "MILK" (done), the list
\* shows "Buy milk" only.
C7_Witness ==
    /\ debouncedSearchTerm = Milk
    /\ filter = "active"
    /\ Len(todos) = 3
    /\ Len(filteredTodos) = 1
    /\ filteredTodos[1].text = BuyMilk

\* C8: a new input cancels the pending timeout, so the timeout callback
\* sets the output only to the value the input has had for the full delay;
\* of inputs that follow each other with gaps shorter than the delay only
\* the last is ever set, once, one delay after it arrived.
C8_DebounceSafety ==
    /\ [](/\ Cardinality(timeouts) <= 1
          /\ \A t \in timeouts : t.value = searchTerm
          /\ \/ outputs = <<>>
             \/ outputs = << burst[Len(burst)] >>)
    /\ [][ (last'.op = "debounceTimeout"
            \/ debouncedSearchTerm' # debouncedSearchTerm) =>
               /\ debouncedSearchTerm' = searchTerm
               /\ elapsed = Delay
               /\ timeouts' = {} ]_vars

\* Three inputs have followed the mount with gaps shorter than the delay,
\* and the output was set once, to the third, one delay after it.
C8_Witness ==
    /\ Len(burst) = 4
    /\ burst[2] # burst[4]
    /\ burst[4] # <<>>
    /\ outputs = << burst[4] >>
    /\ debouncedSearchTerm = burst[4]
    /\ elapsed = Delay
    /\ last.op = "debounceTimeout"

\* C9: the debounced value is always a value the input has had; while it
\* differs from the input a timeout for the input is pending and due one
\* delay after the last change; and once the input has stopped changing
\* the debounced value becomes the input and stays it.
C9_DebounceProvenanceAndLiveness ==
    /\ [](/\ debouncedSearchTerm \in held
          /\ debouncedSearchTerm # searchTerm =>
                \E t \in timeouts :
                    /\ t.value = searchTerm
                    /\ t.left = Delay - elapsed)
    /\ <>[](debouncedSearchTerm = searchTerm)

\* The input has changed and rested for one delay: the output has caught up.
C9_Witness ==
    /\ changes > 1
    /\ searchTerm # <<>>
    /\ debouncedSearchTerm = searchTerm
    /\ elapsed = Delay
    /\ timeouts = {}

\* C10: a task leaves the collection only in the step that confirms the
\* delete request open for its id; a request is open from the click on the
\* delete button of that task until the next cancel or confirm; request and
\* cancel leave the collection and the store as they are.
C10_TwoStepDelete ==
    [][ /\ \A x \in Ids(todos) \ Ids(todos') :
              /\ deleteModal.isOpen
              /\ deleteModal.id = x
              /\ last'.op = "remove"
              /\ last'.id = x
        /\ (/\ deleteModal'.isOpen
            /\ deleteModal.isOpen => deleteModal'.id # deleteModal.id) =>
              /\ last'.op = "requestDelete"
              /\ deleteModal'.id = last'.id
              /\ last'.id \in Ids(todos)
        /\ last'.op \in {"requestDelete", "cancelDelete"} =>
              /\ todos' = todos
              /\ storage' = storage
              /\ setItem' = "none"
        /\ last'.op \in {"remove", "removeUnknown", "cancelDelete"} =>
              ~deleteModal'.isOpen ]_vars

\* Task 2 was removed by confirming the request open for it: task 1 is
\* still there and no request is open.
C10_Witness ==
    /\ last.op = "remove"
    /\ last.id = 2
    /\ Ids(todos) = {1}
    /\ ~deleteModal.isOpen
    /\ toast.message = "Task deleted."

\* C11: at startup, when nothing is stored under the key or what is stored
\* does not parse as JSON, the in-memory value is the supplied default and
\* no error is raised; when it parses, the in-memory value is the parsed
\* value.
C11_GetAtStartup ==
    last.op = "mount" =>
        /\ IF storage = Absent \/ ~Parses(storage)
           THEN todos = DefaultTodos(1, 2) /\ phase = "mounted"
           ELSE todos = JSONparse(storage)
        /\ IF themeStorage = Absent \/ ~Parses(themeStorage)
           THEN theme = "0"
           ELSE theme = JSONparse(themeStorage)

\* The page was loaded with '{oops' under 'todo_list_demo' and '1' under
\* 'theme_dark': the default tasks are shown, in the dark theme.
C11_Witness ==
    /\ last.op = "mount"
    /\ storage = [text |-> "{oops"]
    /\ themeStorage = JSONstringify("1")
    /\ phase = "mounted"
    /\ todos = DefaultTodos(1, 2)
    /\ theme = "1"

\* The operations that call setValue of 'todo_list_demo'.
TaskWrites ==
    {"add", "update", "updateUnknown", "toggle", "remove", "removeUnknown"}

\* C12: after an add, update, toggle, remove or theme toggle whose write
\* succeeded, what is stored under the key of that operation is the
\* serialization of the in-memory value.
C12_PersistenceMirror ==
    /\ (setItem = "ok" /\ last.op \in TaskWrites) =>
            storage = JSONstringify(todos)
    /\ (setItem = "ok" /\ last.op = "toggleTheme") =>
            themeStorage = JSONstringify(theme)

\* The theme was toggled and then task 1, and all tasks are done: both keys
\* hold what is in memory.
C12_Witness ==
    /\ last.op = "toggle"
    /\ last.id = 1
    /\ setItem = "ok"
    /\ \A i \in DOMAIN todos : todos[i].done
    /\ storage = JSONstringify(todos)
    /\ theme = "1"
    /\ themeStorage = JSONstringify("1")

\* The value an operation on the task collection gives to setValue.
NewValue(ts, l) ==
    IF l.op = "add"
    THEN << [id |-> l.id, text |-> trim(l.arg.text), done |-> FALSE,
             priority |-> l.arg.priority] >> \o ts
    ELSE IF l.op \in {"update", "updateUnknown"}
    THEN [i \in DOMAIN ts |->
             IF ts[i].id = l.id THEN Merge(ts[i], l.arg) ELSE ts[i]]
    ELSE IF l.op = "toggle"
    THEN [i \in DOMAIN ts |->
             IF ts[i].id = l.id
             THEN [ts[i] EXCEPT !.done = ~ts[i].done]
             ELSE ts[i]]
    ELSE SelectSeq(ts, LAMBDA t : t.id # l.id)

\* C13: when the write of a set fails, the operation does not raise (it
\* runs to its end: the toast is shown, the delete modal is closed), the
\* in-memory value is the new value and what is stored is left as it was.
C13_WriteFailure ==
    [][ setItem' = "failed" =>
            /\ last'.op \in TaskWrites
            /\ todos' = NewValue(todos, last')
            /\ storage' = storage
            /\ toast'.isShow
            /\ Len(toastTimers') = Len(toastTimers) + 1
            /\ last'.op \in {"remove", "removeUnknown"} =>
                  ~deleteModal'.isOpen ]_vars

\* With the store full, task 1 was removed: it is gone from the list and
\* nothing was written, no key was ever stored.
C13_Witness ==
    /\ last.op = "remove"
    /\ last.id = 1
    /\ setItem = "failed"
    /\ quotaExceeded
    /\ Ids(todos) = {2}
    /\ storage = Absent
    /\ toast.message = "Task deleted."

\* C14: the theme toggle flips the flag between "0" and "1" and stores the
\* new flag, so two toggles give the flag back; and while App is mounted,
\* right after the start from the stored flag included, the document root
\* has the dark-theme class exactly if the flag is "1".
C14_Theme ==
    /\ [](phase = "mounted" =>
            /\ theme \in {"0", "1"}
            /\ darkClass <=> theme = "1")
    /\ [][ last'.op = "toggleTheme" =>
              /\ theme' \in {"0", "1"} \ {theme}
              /\ themeStorage' = JSONstringify(theme')
              /\ darkClass' <=> theme' = "1" ]_vars

\* The page was loaded and the theme toggled to light: "0" is stored
\* and the root has lost the dark-theme class.
C14_Witness ==
    /\ last.op = "toggleTheme"
    /\ theme = "0"
    /\ themeStorage = JSONstringify("0")
    /\ ~darkClass
    /\ phase = "mounted"

\* C15: after any sequence of adds and edits submitted through the modal,
\* every task of the collection has a text that is not empty and has no
\* white space at its start or its end.
C15_TextInvariant ==
    \A i \in DOMAIN todos :
        /\ todos[i].text # <<>>
        /\ trim(todos[i].text) = todos[i].text

\* C16: a toast shown while the timer of an earlier toast is pending takes
\* that timer's place, so no toast is hidden by a timer scheduled before
\* its own: the callback that hides a toast runs when the toast has been
\* shown for 3000 ms, which is the time its own timer, the youngest, had
\* run before this step (3000 less what is left of it) and the time this
\* step takes to the callback.
C16_ToastTimerRescheduled ==
    [][ (last'.op = "toastTimeout" /\ toast.isShow) =>
            ToastMs - toastTimers[Len(toastTimers)] + toastTimers[1]
                = ToastMs ]_vars

\* C17: an update or a toggle of an id in the collection changes, of the
\* record with that id, the fields it names and no other (a toggle names
\* done), and gives them the values it names; the record keeps its id and
\* its place, the collection its length, and every other record stays.
C17_UpdateFrame ==
    [][ last'.op \in {"update", "toggle"} =>
            /\ Len(todos') = Len(todos)
            /\ \A i \in DOMAIN todos :
                  IF todos[i].id = last'.id
                  THEN LET fields == IF last'.op = "toggle" THEN {"done"}
                                     ELSE DOMAIN last'.arg
                       IN /\ DOMAIN todos'[i] = DOMAIN todos[i]
                          /\ todos'[i].id = todos[i].id
                          /\ \A k \in DOMAIN todos[i] \ fields :
                                todos'[i][k] = todos[i][k]
                          /\ last'.op = "update" =>
                                \A k \in fields : todos'[i][k] = last'.arg[k]
                          /\ last'.op = "toggle" =>
                                todos'[i].done = ~todos[i].done
                  ELSE todos'[i] = todos[i] ]_vars

\* Task 2, done, was given a new text and priority: it is still done and
\* second, and task 1 is as it was at the start.
C17_Witness ==
    /\ last.op = "update"
    /\ last.id = 2
    /\ Len(todos) = 2
    /\ todos[1] = DefaultTodos(1, 2)[1]
    /\ todos[2] = [id |-> 2, text |-> <<" ", "a", " ">>, done |-> TRUE,
                   priority |-> "high"]

\* C18: when App is unmounted every pending timer is cancelled, the
\* timeout of the debouncer and the timers of the toasts, so that no timer
\* callback runs and sets state after the unmount.
C18_Teardown ==
    [][ phase = "unmounted" =>
            last'.op \notin {"debounceTimeout", "toastTimeout"} ]_vars

\* The updaters fs applied one after the other, each to the value the one
\* before it gave.
RECURSIVE ApplyAll(_, _)
ApplyAll(fs, v) ==
    IF fs = <<>> THEN v ELSE ApplyAll(Tail(fs), Apply(Head(fs), v))

\* C19: set with an updater applies it to the value current at the call:
\* after the calls f then g, with or without a render between them, the
\* in-memory value and the stored value are g(f(v)).
C19_NoLostUpdate ==
    [][ last'.op = "setValue" =>
            /\ todos' = ApplyAll(last'.arg, todos)
            /\ storage' = JSONstringify(todos') ]_vars

\* C20: whatever is stored under 'todo_list_demo' when the page is loaded
\* (nothing, a text that does not parse, or JSON that is no array of tasks,
\* such as null or a number), the first render does not throw, the
\* collection in memory is a sequence of task records and the visible
\* list is computed from it.
C20_BadReadDegrades ==
    /\ phase # "crashed"
    /\ \A i \in DOMAIN todos :
          DOMAIN todos[i] = {"id", "text", "done", "priority"}
    /\ Len(filteredTodos) <= Len(todos)

====
